---- MODULE Spec2Model ----
(***************************************************************************)
(* Model of server.py: the MCP tool handlers that translate loosely typed  *)
(* arguments into requests of the Alpaca client, make the client call and  *)
(* shape the outcome.                                                       *)
(*                                                                         *)
(* Representation.                                                         *)
(*  - A Python str that the code inspects or interpolates is a sequence of *)
(*    text tokens; categorical arguments are sequences of one-character    *)
(*    tokens so that str.lower() is computed character by character.       *)
(*  - Optional[T] is a set with at most one element: None is {}.           *)
(*  - The external collaborator (client constructor, request constructors, *)
(*    client methods) is nondeterministic: each step either succeeds or    *)
(*    raises an exception; `ext` carries the outcome drawn for each.       *)
(***************************************************************************)
EXTENDS Naturals, Sequences, FiniteSets

VARIABLES pc, pending, last, remote

vars == <<pc, pending, last, remote>>

-----------------------------------------------------------------------------
(* Bounds *)

\* longest list of symbols a caller passes
MaxSymbols == 2
\* most orders the remote account holds open
MaxOrders == 1

-----------------------------------------------------------------------------
(* Python values *)

None == {}

Some(x) == {x}

The(opt) == CHOOSE x \in opt : TRUE

UpperLetters ==
  <<"A", "B", "C", "D", "E", "F", "G", "H", "I", "J", "K", "L", "M",
    "N", "O", "P", "Q", "R", "S", "T", "U", "V", "W", "X", "Y", "Z">>

LowerLetters ==
  <<"a", "b", "c", "d", "e", "f", "g", "h", "i", "j", "k", "l", "m",
    "n", "o", "p", "q", "r", "s", "t", "u", "v", "w", "x", "y", "z">>

\* str.lower() on one character
LowerChar(c) ==
  IF \E i \in 1..Len(UpperLetters) : UpperLetters[i] = c
  THEN LowerLetters[CHOOSE i \in 1..Len(UpperLetters) : UpperLetters[i] = c]
  ELSE c

\* a lower() that leaves its argument as it is
LowerIdentity(s) == s

\* str.lower()
Lower(s) == [i \in 1..Len(s) |-> LowerChar(s[i])]

\* truth value of a str: the empty string is falsy
TruthyStr(s) == Len(s) > 0

\* truth value of an Optional[str]
TruthyOptStr(opt) == opt # None /\ TruthyStr(The(opt))

\* a symbols argument is a str or a list of str
Str(s) == [isStr |-> TRUE, s |-> s, l |-> <<>>]

Lst(l) == [isStr |-> FALSE, s |-> "", l |-> l]

\* isinstance(symbols, str)
IsInstanceStr(symbols) == symbols.isStr

\* truth value of a str-or-list: empty string and empty list are falsy
TruthySymbols(symbols) ==
  IF symbols.isStr THEN symbols.s # "" ELSE Len(symbols.l) > 0

RECURSIVE Join(_, _)
\* sep.join(parts)
Join(sep, parts) ==
  IF Len(parts) = 0 THEN <<>>
  ELSE IF Len(parts) = 1 THEN parts[1]
  ELSE parts[1] \o sep \o Join(sep, Tail(parts))

\* str(e) of an exception: its message
StrOfException(e) == e.msg

-----------------------------------------------------------------------------
(* Outcome of one invocation of a tool *)

Returned(shape, native, body) ==
  [kind |-> "return", shape |-> shape, native |-> native, body |-> body,
   fault |-> None]

\* the client's own response, returned as is
ReturnNative(v) == Returned("native", v, <<>>)

\* return {"success": ..., "message": ...}
ReturnDict(success, message) ==
  Returned("dict", "", <<[success |-> success, message |-> message]>>)

\* return [{"success": ..., "message": ...}]
ReturnList(success, message) ==
  Returned("list", "", <<[success |-> success, message |-> message]>>)

\* an exception leaves the handler
Raised(e) ==
  [kind |-> "raise", shape |-> "none", native |-> "", body |-> <<>>,
   fault |-> Some(e)]

\* what one invocation did: the arguments it got, what the collaborator did
\* (ext), the steps it took in order, the request object it built, the client
\* calls it made, and how it ended
Out(op, args, ext, trace, req, calls, result) ==
  [op |-> op, args |-> args, ext |-> ext, trace |-> trace, req |-> req,
   calls |-> calls, result |-> result]

\* one call of a client method: its argument and the exception it raised
\* (None when it returned)
ClientCall(name, arg, fault) ==
  [name |-> name, arg |-> arg, ok |-> fault = None, fault |-> fault]

-----------------------------------------------------------------------------
(* dict literals of the source: insertion-ordered key/value pairs *)

DictKeys(d) == [i \in 1..Len(d) |-> d[i].k]

DictHas(d, key) == \E i \in 1..Len(d) : d[i].k = key

DictGet(d, key) == d[CHOOSE i \in 1..Len(d) : d[i].k = key].v

unit_map ==
  << [k |-> <<"M", "i", "n">>, v |-> "TimeFrameUnit.Minute"],
     [k |-> <<"H", "o", "u", "r">>, v |-> "TimeFrameUnit.Hour"],
     [k |-> <<"D", "a", "y">>, v |-> "TimeFrameUnit.Day"],
     [k |-> <<"W", "e", "e", "k">>, v |-> "TimeFrameUnit.Week"],
     [k |-> <<"M", "o", "n", "t", "h">>, v |-> "TimeFrameUnit.Month"] >>

status_map ==
  << [k |-> <<"o", "p", "e", "n">>, v |-> "QueryOrderStatus.OPEN"],
     [k |-> <<"c", "l", "o", "s", "e", "d">>, v |-> "QueryOrderStatus.CLOSED"],
     [k |-> <<"a", "l", "l">>, v |-> "QueryOrderStatus.ALL"] >>

direction_map ==
  << [k |-> <<"a", "s", "c">>, v |-> "Sort.ASC"],
     [k |-> <<"d", "e", "s", "c">>, v |-> "Sort.DESC"] >>

side_map ==
  << [k |-> <<"b", "u", "y">>, v |-> "OrderSide.BUY"],
     [k |-> <<"s", "e", "l", "l">>, v |-> "OrderSide.SELL"] >>

tif_map ==
  << [k |-> <<"d", "a", "y">>, v |-> "TimeInForce.DAY"],
     [k |-> <<"g", "t", "c">>, v |-> "TimeInForce.GTC"],
     [k |-> <<"o", "p", "g">>, v |-> "TimeInForce.OPG"],
     [k |-> <<"c", "l", "s">>, v |-> "TimeInForce.CLS"],
     [k |-> <<"i", "o", "c">>, v |-> "TimeInForce.IOC"],
     [k |-> <<"f", "o", "k">>, v |-> "TimeInForce.FOK"] >>

-----------------------------------------------------------------------------
(* Parameter normalization, as written inline in each handler *)

\* get_latest_quotes: if isinstance(symbols, str): symbols = [symbols]
get_latest_quotes_symbols(symbols) ==
  IF IsInstanceStr(symbols) THEN <<symbols.s>> ELSE symbols.l

\* a normalization that keeps only the first symbol of a list
get_stock_bars_symbols_first(symbols) ==
  IF IsInstanceStr(symbols) THEN <<symbols.s>>
  ELSE IF Len(symbols.l) > 1 THEN <<symbols.l[1]>>
  ELSE symbols.l

\* get_stock_bars: if isinstance(symbols, str): symbols = [symbols]
get_stock_bars_symbols(symbols) ==
  IF IsInstanceStr(symbols) THEN <<symbols.s>> ELSE symbols.l

\* get_stock_bars: timeframe_unit not in unit_map
get_stock_bars_unit_invalid(timeframe_unit) ==
  ~DictHas(unit_map, timeframe_unit)

\* a ValueError that does not list the unit names
get_stock_bars_ValueError_bare ==
  [cls |-> "ValueError", msg |-> <<"Invalid timeframe_unit.">>]

\* get_stock_bars: the ValueError raised for an invalid timeframe_unit
get_stock_bars_ValueError ==
  [cls |-> "ValueError",
   msg |-> <<"Invalid timeframe_unit. Must be one of: ">>
             \o Join(<<", ">>, DictKeys(unit_map))]

\* a status mapping that defaults an unknown status to open
get_orders_status_param_default(status) ==
  IF TruthyOptStr(status)
  THEN IF DictHas(status_map, Lower(The(status)))
       THEN Some(DictGet(status_map, Lower(The(status))))
       ELSE Some("QueryOrderStatus.OPEN")
  ELSE None

get_orders_status_param(status) ==
  IF TruthyOptStr(status) /\ DictHas(status_map, Lower(The(status)))
  THEN Some(DictGet(status_map, Lower(The(status)))) ELSE None

get_orders_direction_param(direction) ==
  IF TruthyOptStr(direction) /\ DictHas(direction_map, Lower(The(direction)))
  THEN Some(DictGet(direction_map, Lower(The(direction)))) ELSE None

get_orders_side_param(side) ==
  IF TruthyOptStr(side) /\ DictHas(side_map, Lower(The(side)))
  THEN Some(DictGet(side_map, Lower(The(side)))) ELSE None

get_orders_symbols_param(symbols) ==
  IF symbols # None /\ TruthySymbols(The(symbols))
  THEN IF IsInstanceStr(The(symbols))
       THEN Some(<<The(symbols).s>>)
       ELSE Some(The(symbols).l)
  ELSE None

\* a side mapping whose else branch sells instead of returning
place_limit_order_side_param_lenient(side) ==
  IF Lower(side) = <<"b", "u", "y">> THEN Some("OrderSide.BUY")
  ELSE Some("OrderSide.SELL")

\* place_limit_order: side.lower() == "buy" / "sell" / else
place_limit_order_side_param(side) ==
  IF Lower(side) = <<"b", "u", "y">> THEN Some("OrderSide.BUY")
  ELSE IF Lower(side) = <<"s", "e", "l", "l">> THEN Some("OrderSide.SELL")
  ELSE None

place_limit_order_invalid_side(side) ==
  ReturnDict(FALSE, <<"Invalid side parameter: ">> \o side
                      \o <<". Must be 'buy' or 'sell'.">>)

\* an invalid-time_in_force record that leaves out the accepted codes
place_limit_order_invalid_tif_bare(time_in_force) ==
  ReturnDict(FALSE, <<"Invalid time_in_force parameter: ">> \o time_in_force)

place_limit_order_invalid_tif(time_in_force) ==
  ReturnDict(FALSE, <<"Invalid time_in_force parameter: ">> \o time_in_force
                      \o <<". Must be one of: ">>
                      \o Join(<<", ">>, DictKeys(tif_map)))

-----------------------------------------------------------------------------
(* Market-data tools and order listing: no try/except *)

\* a get_latest_quotes that wraps the fault of its call in a failure record
get_latest_quotes_wrapping(symbols, ext) ==
  LET args == [symbols |-> symbols]
      request_params ==
        [type |-> "StockLatestQuoteRequest",
         symbol_or_symbols |-> get_latest_quotes_symbols(symbols)]
      call == ClientCall("get_stock_latest_quote", request_params, ext.call)
  IN  IF ext.request # None
      THEN Out("get_latest_quotes", args, ext, <<"normalize", "request">>,
               None, <<>>, Raised(The(ext.request)))
      ELSE IF ext.client # None
      THEN Out("get_latest_quotes", args, ext,
               <<"normalize", "request", "client">>,
               Some(request_params), <<>>, Raised(The(ext.client)))
      ELSE IF ext.call # None
      THEN Out("get_latest_quotes", args, ext,
               <<"normalize", "request", "client", "call">>,
               Some(request_params), <<call>>,
               ReturnDict(FALSE, StrOfException(The(ext.call))))
      ELSE Out("get_latest_quotes", args, ext,
               <<"normalize", "request", "client", "call">>,
               Some(request_params), <<call>>, ReturnNative("latest_quotes"))

get_latest_quotes(symbols, ext) ==
  LET args == [symbols |-> symbols]
      request_params ==
        [type |-> "StockLatestQuoteRequest",
         symbol_or_symbols |-> get_latest_quotes_symbols(symbols)]
      call == ClientCall("get_stock_latest_quote", request_params,
                         ext.call)
  IN  IF ext.request # None
      THEN Out("get_latest_quotes", args, ext, <<"normalize", "request">>,
               None, <<>>, Raised(The(ext.request)))
      ELSE IF ext.client # None
      THEN Out("get_latest_quotes", args, ext, <<"normalize", "request", "client">>,
               Some(request_params), <<>>, Raised(The(ext.client)))
      ELSE IF ext.call # None
      THEN Out("get_latest_quotes", args, ext,
               <<"normalize", "request", "client", "call">>,
               Some(request_params), <<call>>, Raised(The(ext.call)))
      ELSE Out("get_latest_quotes", args, ext,
               <<"normalize", "request", "client", "call">>,
               Some(request_params), <<call>>, ReturnNative("latest_quotes"))

get_stock_bars(symbols, start_date, end_date, timeframe_value, timeframe_unit, limit, sort, ext) ==
  LET args == [symbols |-> symbols, start_date |-> start_date,
               end_date |-> end_date, timeframe_value |-> timeframe_value,
               timeframe_unit |-> timeframe_unit, limit |-> limit,
               sort |-> sort]
      request_params ==
        [type |-> "StockBarsRequest",
         symbol_or_symbols |-> get_stock_bars_symbols(symbols),
         timeframe |-> [amount |-> timeframe_value,
                        unit |-> DictGet(unit_map, timeframe_unit)],
         start |-> start_date, end |-> end_date, limit |-> limit,
         sort |-> sort]
      call == ClientCall("get_stock_bars", request_params, ext.call)
  IN  IF get_stock_bars_unit_invalid(timeframe_unit)
      THEN Out("get_stock_bars", args, ext, <<"normalize", "reject">>,
               None, <<>>, Raised(get_stock_bars_ValueError))
      ELSE IF ext.request # None
      THEN Out("get_stock_bars", args, ext, <<"normalize", "request">>,
               None, <<>>, Raised(The(ext.request)))
      ELSE IF ext.client # None
      THEN Out("get_stock_bars", args, ext,
               <<"normalize", "request", "client">>,
               Some(request_params), <<>>, Raised(The(ext.client)))
      ELSE IF ext.call # None
      THEN Out("get_stock_bars", args, ext,
               <<"normalize", "request", "client", "call">>,
               Some(request_params), <<call>>, Raised(The(ext.call)))
      ELSE Out("get_stock_bars", args, ext,
               <<"normalize", "request", "client", "call">>,
               Some(request_params), <<call>>, ReturnNative("bars.data"))

get_orders(status, limit, after, until, direction, nested, side, symbols, ext) ==
  LET args == [status |-> status, limit |-> limit, after |-> after,
               until |-> until, direction |-> direction, nested |-> nested,
               side |-> side, symbols |-> symbols]
      request_params ==
        [type |-> "GetOrdersRequest",
         status |-> get_orders_status_param(status), limit |-> limit,
         after |-> after, until |-> until,
         direction |-> get_orders_direction_param(direction),
         nested |-> nested, side |-> get_orders_side_param(side),
         symbols |-> get_orders_symbols_param(symbols)]
      call == ClientCall("get_orders", request_params, ext.call)
  IN  IF ext.request # None
      THEN Out("get_orders", args, ext, <<"normalize", "request">>,
               None, <<>>, Raised(The(ext.request)))
      ELSE IF ext.client # None
      THEN Out("get_orders", args, ext, <<"normalize", "request", "client">>,
               Some(request_params), <<>>, Raised(The(ext.client)))
      ELSE IF ext.call # None
      THEN Out("get_orders", args, ext,
               <<"normalize", "request", "client", "call">>,
               Some(request_params), <<call>>, Raised(The(ext.call)))
      ELSE Out("get_orders", args, ext,
               <<"normalize", "request", "client", "call">>,
               Some(request_params), <<call>>, ReturnNative("orders"))

-----------------------------------------------------------------------------
(* Trading tools: the client is constructed first; all but cancel_orders   *)
(* guard the rest with try/except Exception                                *)

cancel_orders(ext) ==
  LET args == [none |-> TRUE]
      call == ClientCall("cancel_orders", <<>>, ext.call)
  IN  IF ext.client # None
      THEN Out("cancel_orders", args, ext, <<"client">>, None, <<>>,
               Raised(The(ext.client)))
      ELSE IF ext.call # None
      THEN Out("cancel_orders", args, ext, <<"client", "call">>, None, <<call>>,
               Raised(The(ext.call)))
      ELSE Out("cancel_orders", args, ext, <<"client", "call">>, None, <<call>>,
               ReturnNative("responses"))

\* a cancel_order_by_id that reports success whatever its call did
cancel_order_by_id_optimistic(order_id, ext) ==
  LET args == [order_id |-> order_id]
      call == ClientCall("cancel_order_by_id", order_id, ext.call)
  IN  IF ext.client # None
      THEN Out("cancel_order_by_id", args, ext, <<"client">>, None, <<>>,
               Raised(The(ext.client)))
      ELSE Out("cancel_order_by_id", args, ext, <<"client", "call">>, None,
               <<call>>,
               ReturnDict(TRUE, <<"Request to cancel order ">> \o order_id
                 \o <<" was sent to Alpaca. Verify order status to ensure it was cancelled.">>))

cancel_order_by_id(order_id, ext) ==
  LET args == [order_id |-> order_id]
      call == ClientCall("cancel_order_by_id", order_id, ext.call)
  IN  IF ext.client # None
      THEN Out("cancel_order_by_id", args, ext, <<"client">>, None, <<>>,
               Raised(The(ext.client)))
      ELSE IF ext.call # None
      THEN Out("cancel_order_by_id", args, ext, <<"client", "call">>, None,
               <<call>>, ReturnDict(FALSE, StrOfException(The(ext.call))))
      ELSE Out("cancel_order_by_id", args, ext, <<"client", "call">>, None,
               <<call>>,
               ReturnDict(TRUE, <<"Request to cancel order ">> \o order_id
                 \o <<" was sent to Alpaca. Verify order status to ensure it was cancelled.">>))

\* a get_asset that calls the client's cancel_orders
get_asset_cancelling(symbol_or_asset_id, ext) ==
  LET args == [symbol_or_asset_id |-> symbol_or_asset_id]
      call == ClientCall("cancel_orders", <<>>, ext.call)
  IN  IF ext.client # None
      THEN Out("get_asset", args, ext, <<"client">>, None, <<>>,
               Raised(The(ext.client)))
      ELSE IF ext.call # None
      THEN Out("get_asset", args, ext, <<"client", "call">>, None, <<call>>,
               ReturnDict(FALSE, StrOfException(The(ext.call))))
      ELSE Out("get_asset", args, ext, <<"client", "call">>, None, <<call>>,
               ReturnNative("asset"))

get_asset(symbol_or_asset_id, ext) ==
  LET args == [symbol_or_asset_id |-> symbol_or_asset_id]
      call == ClientCall("get_asset", symbol_or_asset_id, ext.call)
  IN  IF ext.client # None
      THEN Out("get_asset", args, ext, <<"client">>, None, <<>>,
               Raised(The(ext.client)))
      ELSE IF ext.call # None
      THEN Out("get_asset", args, ext, <<"client", "call">>, None, <<call>>,
               ReturnDict(FALSE, StrOfException(The(ext.call))))
      ELSE Out("get_asset", args, ext, <<"client", "call">>, None, <<call>>,
               ReturnNative("asset"))

\* a get_account that calls again when its call raised
get_account_retries(ext) ==
  LET args == [none |-> TRUE]
      call == ClientCall("get_account", <<>>, ext.call)
  IN  IF ext.client # None
      THEN Out("get_account", args, ext, <<"client">>, None, <<>>,
               Raised(The(ext.client)))
      ELSE IF ext.call # None
      THEN Out("get_account", args, ext, <<"client", "call", "call">>, None,
               <<call, call>>,
               ReturnDict(FALSE, StrOfException(The(ext.call))))
      ELSE Out("get_account", args, ext, <<"client", "call">>, None, <<call>>,
               ReturnNative("account"))

get_account(ext) ==
  LET args == [none |-> TRUE]
      call == ClientCall("get_account", <<>>, ext.call)
  IN  IF ext.client # None
      THEN Out("get_account", args, ext, <<"client">>, None, <<>>,
               Raised(The(ext.client)))
      ELSE IF ext.call # None
      THEN Out("get_account", args, ext, <<"client", "call">>, None, <<call>>,
               ReturnDict(FALSE, StrOfException(The(ext.call))))
      ELSE Out("get_account", args, ext, <<"client", "call">>, None, <<call>>,
               ReturnNative("account"))

get_all_positions(ext) ==
  LET args == [none |-> TRUE]
      call == ClientCall("get_all_positions", <<>>, ext.call)
  IN  IF ext.client # None
      THEN Out("get_all_positions", args, ext, <<"client">>, None, <<>>,
               Raised(The(ext.client)))
      ELSE IF ext.call # None
      THEN Out("get_all_positions", args, ext, <<"client", "call">>, None, <<call>>,
               ReturnList(FALSE, StrOfException(The(ext.call))))
      ELSE Out("get_all_positions", args, ext, <<"client", "call">>, None, <<call>>,
               ReturnNative("positions"))

\* a get_open_position that constructs the client inside the try
get_open_position_guarded(symbol_or_asset_id, ext) ==
  LET args == [symbol_or_asset_id |-> symbol_or_asset_id]
      call == ClientCall("get_open_position", symbol_or_asset_id, ext.call)
  IN  IF ext.client # None
      THEN Out("get_open_position", args, ext, <<"client">>, None, <<>>,
               ReturnDict(FALSE, StrOfException(The(ext.client))))
      ELSE IF ext.call # None
      THEN Out("get_open_position", args, ext, <<"client", "call">>, None,
               <<call>>, ReturnDict(FALSE, StrOfException(The(ext.call))))
      ELSE Out("get_open_position", args, ext, <<"client", "call">>, None,
               <<call>>, ReturnNative("position"))

get_open_position(symbol_or_asset_id, ext) ==
  LET args == [symbol_or_asset_id |-> symbol_or_asset_id]
      call == ClientCall("get_open_position", symbol_or_asset_id,
                         ext.call)
  IN  IF ext.client # None
      THEN Out("get_open_position", args, ext, <<"client">>, None, <<>>,
               Raised(The(ext.client)))
      ELSE IF ext.call # None
      THEN Out("get_open_position", args, ext, <<"client", "call">>, None, <<call>>,
               ReturnDict(FALSE, StrOfException(The(ext.call))))
      ELSE Out("get_open_position", args, ext, <<"client", "call">>, None, <<call>>,
               ReturnNative("position"))

\* a close_position that itself rejects qty together with percentage
close_position_exclusive(symbol_or_asset_id, qty, percentage, ext) ==
  LET args == [symbol_or_asset_id |-> symbol_or_asset_id, qty |-> qty,
               percentage |-> percentage]
      build == qty # None \/ percentage # None
      close_options ==
        IF build
        THEN Some([type |-> "ClosePositionRequest", qty |-> qty,
                   percentage |-> percentage])
        ELSE None
      call == ClientCall("close_position",
                         [symbol_or_asset_id |-> symbol_or_asset_id,
                          close_options |-> close_options], ext.call)
  IN  IF ext.client # None
      THEN Out("close_position", args, ext, <<"client">>, None, <<>>,
               Raised(The(ext.client)))
      ELSE IF qty # None /\ percentage # None
      THEN Out("close_position", args, ext, <<"client", "reject">>, None, <<>>,
               ReturnDict(FALSE, <<"Specify either qty or percentage, not both.">>))
      ELSE IF build /\ ext.request # None
      THEN Out("close_position", args, ext, <<"client", "request">>, None,
               <<>>, ReturnDict(FALSE, StrOfException(The(ext.request))))
      ELSE IF ext.call # None
      THEN Out("close_position", args, ext,
               IF build THEN <<"client", "request", "call">>
                        ELSE <<"client", "call">>,
               close_options, <<call>>,
               ReturnDict(FALSE, StrOfException(The(ext.call))))
      ELSE Out("close_position", args, ext,
               IF build THEN <<"client", "request", "call">>
                        ELSE <<"client", "call">>,
               close_options, <<call>>, ReturnNative("order"))

close_position(symbol_or_asset_id, qty, percentage, ext) ==
  LET args == [symbol_or_asset_id |-> symbol_or_asset_id, qty |-> qty,
               percentage |-> percentage]
      build == qty # None \/ percentage # None
      close_options ==
        IF build
        THEN Some([type |-> "ClosePositionRequest", qty |-> qty,
                   percentage |-> percentage])
        ELSE None
      call == ClientCall("close_position",
                         [symbol_or_asset_id |-> symbol_or_asset_id,
                          close_options |-> close_options], ext.call)
  IN  IF ext.client # None
      THEN Out("close_position", args, ext, <<"client">>, None, <<>>,
               Raised(The(ext.client)))
      ELSE IF build /\ ext.request # None
      THEN Out("close_position", args, ext, <<"client", "request">>, None, <<>>,
               ReturnDict(FALSE, StrOfException(The(ext.request))))
      ELSE IF ext.call # None
      THEN Out("close_position", args, ext,
               IF build THEN <<"client", "request", "call">>
                        ELSE <<"client", "call">>,
               close_options, <<call>>,
               ReturnDict(FALSE, StrOfException(The(ext.call))))
      ELSE Out("close_position", args, ext,
               IF build THEN <<"client", "request", "call">>
                        ELSE <<"client", "call">>,
               close_options, <<call>>, ReturnNative("order"))

\* a get_clock without the try/except
get_clock_propagates(ext) ==
  LET args == [none |-> TRUE]
      call == ClientCall("get_clock", <<>>, ext.call)
  IN  IF ext.client # None
      THEN Out("get_clock", args, ext, <<"client">>, None, <<>>,
               Raised(The(ext.client)))
      ELSE IF ext.call # None
      THEN Out("get_clock", args, ext, <<"client", "call">>, None, <<call>>,
               Raised(The(ext.call)))
      ELSE Out("get_clock", args, ext, <<"client", "call">>, None, <<call>>,
               ReturnNative("clock"))

get_clock(ext) ==
  LET args == [none |-> TRUE]
      call == ClientCall("get_clock", <<>>, ext.call)
  IN  IF ext.client # None
      THEN Out("get_clock", args, ext, <<"client">>, None, <<>>,
               Raised(The(ext.client)))
      ELSE IF ext.call # None
      THEN Out("get_clock", args, ext, <<"client", "call">>, None, <<call>>,
               ReturnDict(FALSE, StrOfException(The(ext.call))))
      ELSE Out("get_clock", args, ext, <<"client", "call">>, None, <<call>>,
               ReturnNative("clock"))

get_calendar(start, end, ext) ==
  LET args == [start |-> start, end |-> end]
      build == start # None \/ end # None
      filters ==
        IF build
        THEN Some([type |-> "GetCalendarRequest", start |-> start, end |-> end])
        ELSE None
      call == ClientCall("get_calendar", filters, ext.call)
  IN  IF ext.client # None
      THEN Out("get_calendar", args, ext, <<"client">>, None, <<>>,
               Raised(The(ext.client)))
      ELSE IF build /\ ext.request # None
      THEN Out("get_calendar", args, ext, <<"client", "request">>, None, <<>>,
               ReturnList(FALSE, StrOfException(The(ext.request))))
      ELSE IF ext.call # None
      THEN Out("get_calendar", args, ext,
               IF build THEN <<"client", "request", "call">>
                        ELSE <<"client", "call">>,
               filters, <<call>>,
               ReturnList(FALSE, StrOfException(The(ext.call))))
      ELSE Out("get_calendar", args, ext,
               IF build THEN <<"client", "request", "call">>
                        ELSE <<"client", "call">>,
               filters, <<call>>, ReturnNative("calendar"))

place_limit_order(symbol, limit_price, qty, side, time_in_force, ext) ==
  LET args == [symbol |-> symbol, limit_price |-> limit_price, qty |-> qty,
               side |-> side, time_in_force |-> time_in_force]
      side_param == place_limit_order_side_param(side)
      limit_order_data ==
        [type |-> "LimitOrderRequest", symbol |-> symbol,
         limit_price |-> limit_price, qty |-> qty, side |-> The(side_param),
         time_in_force |-> DictGet(tif_map, Lower(time_in_force))]
      call == ClientCall("submit_order", limit_order_data, ext.call)
  IN  IF ext.client # None
      THEN Out("place_limit_order", args, ext, <<"client">>, None, <<>>,
               Raised(The(ext.client)))
      ELSE IF side_param = None
      THEN Out("place_limit_order", args, ext, <<"client", "reject">>, None,
               <<>>, place_limit_order_invalid_side(side))
      ELSE IF ~DictHas(tif_map, Lower(time_in_force))
      THEN Out("place_limit_order", args, ext, <<"client", "reject">>, None,
               <<>>, place_limit_order_invalid_tif(time_in_force))
      ELSE IF ext.request # None
      THEN Out("place_limit_order", args, ext, <<"client", "normalize", "request">>,
               None, <<>>, ReturnDict(FALSE, StrOfException(The(ext.request))))
      ELSE IF ext.call # None
      THEN Out("place_limit_order", args, ext,
               <<"client", "normalize", "request", "call">>,
               Some(limit_order_data), <<call>>,
               ReturnDict(FALSE, StrOfException(The(ext.call))))
      ELSE Out("place_limit_order", args, ext,
               <<"client", "normalize", "request", "call">>,
               Some(limit_order_data), <<call>>, ReturnNative("order"))

-----------------------------------------------------------------------------
(* The external collaborator *)

\* raised by the client constructor when the credentials read from the
\* environment are missing
AuthFault ==
  [cls |-> "ValueError", msg |-> <<"You must supply a method of authentication">>]

\* raised by a request constructor that rejects its fields
RequestFault ==
  [cls |-> "ValidationError", msg |-> <<"1 validation error for request">>]

\* raised by a client method
CallFaults ==
  { [cls |-> "APIError", msg |-> <<"{\"code\": 40410000, \"message\": \"not found\"}">>],
    [cls |-> "ConnectionError", msg |-> <<"connection refused">>] }

\* what the collaborator does at each step of one invocation
ExtOutcomes ==
  [client : {None, Some(AuthFault)},
   request : {None, Some(RequestFault)},
   call : {None} \cup {Some(f) : f \in CallFaults}]

\* handlers that build no request object
ExtNoRequest == {e \in ExtOutcomes : e.request = None}

Symbols == {"AAPL", "MSFT"}

Digits == <<"1", "2", "3", "4", "5", "6", "7", "8", "9">>

\* the id under which the remote account knows its i-th order
OrderIdText(i) == <<"order-", Digits[i]>>

\* the effect on the remote account of a client method that returned
Effect(r, call) ==
  CASE call.name = "cancel_orders" -> [r EXCEPT !.orders = {}]
    [] call.name = "cancel_order_by_id" ->
         [r EXCEPT !.orders = {i \in @ : OrderIdText(i) # call.arg}]
    [] call.name = "close_position" ->
         [r EXCEPT !.positions = @ \ {call.arg.symbol_or_asset_id}]
    [] call.name = "submit_order" ->
         [r EXCEPT !.orders =
            @ \cup {CHOOSE i \in (1..MaxOrders) \ @ :
                      \A j \in (1..MaxOrders) \ @ : i <= j}]
    [] OTHER -> r

RECURSIVE ApplyCalls(_, _)
ApplyCalls(r, calls) ==
  IF Len(calls) = 0 THEN r
  ELSE ApplyCalls(IF calls[1].ok THEN Effect(r, calls[1]) ELSE r, Tail(calls))

\* the remote account has room for the orders these calls submit
HasRoom(r, calls) ==
  \A i \in 1..Len(calls) :
    (calls[i].name = "submit_order" /\ calls[i].ok)
      => Cardinality(r.orders) < MaxOrders

-----------------------------------------------------------------------------
(* Arguments the callers pass *)

SwapCase(c) ==
  IF \E i \in 1..Len(UpperLetters) : UpperLetters[i] = c
  THEN LowerLetters[CHOOSE i \in 1..Len(UpperLetters) : UpperLetters[i] = c]
  ELSE IF \E i \in 1..Len(LowerLetters) : LowerLetters[i] = c
  THEN UpperLetters[CHOOSE i \in 1..Len(LowerLetters) : LowerLetters[i] = c]
  ELSE c

\* every way of writing lit with some of its letters in the other case
CaseVariants(lit) ==
  { [i \in 1..Len(lit) |-> IF i \in U THEN SwapCase(lit[i]) ELSE lit[i]] :
      U \in SUBSET (1..Len(lit)) }

VariantsOfKeys(d) == UNION {CaseVariants(d[i].k) : i \in 1..Len(d)}

SymbolLists == UNION {[1..k -> Symbols] : k \in 0..MaxSymbols}

SymbolsInputs ==
  {Str(s) : s \in Symbols \cup {""}} \cup {Lst(l) : l \in SymbolLists}

SymbolsCore ==
  {Str("AAPL"), Str(""), Lst(<<>>), Lst(<<"MSFT", "AAPL">>)}

UnitInputs == VariantsOfKeys(unit_map) \cup {<<"F", "o", "r", "t", "n", "i", "g", "h", "t">>, <<>>}

UnitCore == {<<"D", "a", "y">>, <<"d", "a", "y">>, <<"H", "o", "u", "r">>, <<"F", "o", "r", "t", "n", "i", "g", "h", "t">>}

StatusInputs ==
  {None, Some(<<>>), Some(<<"p", "e", "n", "d", "i", "n", "g">>)}
    \cup {Some(s) : s \in VariantsOfKeys(status_map)}

StatusCore == {None, Some(<<"o", "p", "e", "n">>), Some(<<"C", "l", "o", "s", "e", "d">>), Some(<<"p", "e", "n", "d", "i", "n", "g">>)}

DirectionInputs ==
  {None, Some(<<>>), Some(<<"u", "p">>)}
    \cup {Some(s) : s \in VariantsOfKeys(direction_map)}

DirectionCore == {None, Some(<<"D", "E", "S", "C">>), Some(<<"u", "p">>)}

SideInputs ==
  {None, Some(<<>>), Some(<<"s", "i", "d", "e", "w", "a", "y", "s">>)}
    \cup {Some(s) : s \in VariantsOfKeys(side_map)}

SideCore == {None, Some(<<"B", "u", "y">>), Some(<<"s", "i", "d", "e", "w", "a", "y", "s">>)}

\* limit, after, until, nested of get_orders
OrdersScalars ==
  { [limit |-> None, after |-> None, until |-> None, nested |-> None],
    [limit |-> Some(50), after |-> None, until |-> None, nested |-> None],
    [limit |-> None, after |-> Some("2025-01-01"), until |-> None,
     nested |-> None],
    [limit |-> None, after |-> None, until |-> Some("2025-01-31"),
     nested |-> None],
    [limit |-> None, after |-> None, until |-> None, nested |-> Some(TRUE)],
    [limit |-> Some(500), after |-> Some("2025-01-01"),
     until |-> Some("2025-01-31"), nested |-> Some(FALSE)] }

OrdersArgs(statuses, directions, sides, symbolss, scalars) ==
  { [status |-> st, limit |-> sc.limit, after |-> sc.after, until |-> sc.until,
     direction |-> d, nested |-> sc.nested, side |-> sd, symbols |-> sy] :
      st \in statuses, d \in directions, sd \in sides, sy \in symbolss,
      sc \in scalars }

\* each argument in turn ranges over all its inputs, the others over a core
GetOrdersInputs ==
  LET symCore == {None} \cup {Some(x) : x \in SymbolsCore}
      symAll == {None} \cup {Some(x) : x \in SymbolsInputs}
      oneScalar == {[limit |-> None, after |-> None, until |-> None,
                     nested |-> None]}
  IN  OrdersArgs(StatusCore, DirectionCore, SideCore, symCore, OrdersScalars)
        \cup OrdersArgs(StatusInputs, DirectionCore, SideCore, {None}, oneScalar)
        \cup OrdersArgs(StatusCore, DirectionInputs, SideCore, {None}, oneScalar)
        \cup OrdersArgs(StatusCore, DirectionCore, SideInputs, {None}, oneScalar)
        \cup OrdersArgs(StatusCore, DirectionCore, SideCore, symAll, oneScalar)

BarsArgs(symbolss, units, limits) ==
  { [symbols |-> sy, start_date |-> "2025-01-01", end_date |-> "2025-01-31",
     timeframe_value |-> 1, timeframe_unit |-> u, limit |-> l,
     sort |-> "asc"] : sy \in symbolss, u \in units, l \in limits }

GetStockBarsInputs ==
  BarsArgs(SymbolsInputs, UnitCore, {None, Some(10)})
    \cup BarsArgs({Str("AAPL")}, UnitInputs, {None})

OrderSideInputs ==
  VariantsOfKeys(side_map) \cup {<<"s", "i", "d", "e", "w", "a", "y", "s">>, <<>>, <<"b", "u", "y", "e", "r">>}

TifInputs == VariantsOfKeys(tif_map) \cup {<<"w", "e", "e", "k">>, <<>>}

OrderSideCore ==
  {<<"b", "u", "y">>, <<"S", "E", "L", "L">>,
   <<"s", "i", "d", "e", "w", "a", "y", "s">>}

TifCore == {<<"d", "a", "y">>, <<"G", "T", "C">>, <<"w", "e", "e", "k">>}

\* side and time_in_force in turn range over all their inputs
PlaceLimitOrderInputs ==
  [symbol : Symbols, limit_price : {195}, qty : {5},
   side : OrderSideCore, time_in_force : TifCore]
    \cup [symbol : {"AAPL"}, limit_price : {900}, qty : {1},
          side : OrderSideInputs, time_in_force : TifCore]
    \cup [symbol : {"AAPL"}, limit_price : {900}, qty : {1},
          side : OrderSideCore, time_in_force : TifInputs]

OrderIdInputs ==
  {OrderIdText(i) : i \in 1..MaxOrders}
    \cup {<<"f1d6dc0e-8d24-4f94-a36d-c1d6b2b8ad77">>}

AssetInputs == Symbols \cup {"b0b6dd9d-8b9b-4a32-9b23-c81997b3d06c"}

ClosePositionInputs ==
  [symbol_or_asset_id : AssetInputs, qty : {None, Some("10")},
   percentage : {None, Some("50")}]

GetCalendarInputs ==
  [start : {None, Some("2025-01-01")}, end : {None, Some("2025-01-31")}]

NoArgs == {[none |-> TRUE]}

Invoke(op, argss) == {[op |-> op, args |-> a] : a \in argss}

\* the tool calls the hosting runtime may dispatch
Invocations ==
  Invoke("get_latest_quotes", [symbols : SymbolsInputs])
    \cup Invoke("get_stock_bars", GetStockBarsInputs)
    \cup Invoke("get_orders", GetOrdersInputs)
    \cup Invoke("cancel_orders", NoArgs)
    \cup Invoke("cancel_order_by_id", [order_id : OrderIdInputs])
    \cup Invoke("get_asset", [symbol_or_asset_id : AssetInputs])
    \cup Invoke("get_account", NoArgs)
    \cup Invoke("get_all_positions", NoArgs)
    \cup Invoke("get_open_position", [symbol_or_asset_id : AssetInputs])
    \cup Invoke("close_position", ClosePositionInputs)
    \cup Invoke("get_clock", NoArgs)
    \cup Invoke("get_calendar", GetCalendarInputs)
    \cup Invoke("place_limit_order", PlaceLimitOrderInputs)

-----------------------------------------------------------------------------
(* The server: the runtime dispatches one tool call, the handler runs to   *)
(* its end, the outcome is delivered                                        *)

Init ==
  /\ pc = "idle"
  /\ pending = None
  /\ last = None
  /\ remote = [orders |-> {}, positions |-> {"AAPL"}]

\* the hosting runtime receives a tool call
Dispatch ==
  /\ pc = "idle"
  /\ \E c \in Invocations : pending' = Some(c)
  /\ pc' = "called"
  /\ UNCHANGED <<last, remote>>

\* the handler has run: its outcome and the effect of its client calls
Commit(out) ==
  /\ HasRoom(remote, out.calls)
  /\ last' = Some(out)
  /\ remote' = ApplyCalls(remote, out.calls)
  /\ pending' = None
  /\ pc' = "returned"

Called(op) == pc = "called" /\ The(pending).op = op

Run_get_latest_quotes ==
  /\ Called("get_latest_quotes")
  /\ \E ext \in ExtOutcomes :
       Commit(get_latest_quotes(The(pending).args.symbols, ext))

Run_get_stock_bars ==
  /\ Called("get_stock_bars")
  /\ \E ext \in ExtOutcomes :
       LET a == The(pending).args
       IN  Commit(get_stock_bars(a.symbols, a.start_date, a.end_date,
                                 a.timeframe_value, a.timeframe_unit,
                                 a.limit, a.sort, ext))

Run_get_orders ==
  /\ Called("get_orders")
  /\ \E ext \in ExtOutcomes :
       LET a == The(pending).args
       IN  Commit(get_orders(a.status, a.limit, a.after, a.until, a.direction,
                             a.nested, a.side, a.symbols, ext))

Run_cancel_orders ==
  /\ Called("cancel_orders")
  /\ \E ext \in ExtNoRequest : Commit(cancel_orders(ext))

Run_cancel_order_by_id ==
  /\ Called("cancel_order_by_id")
  /\ \E ext \in ExtNoRequest :
       Commit(cancel_order_by_id(The(pending).args.order_id, ext))

Run_get_asset ==
  /\ Called("get_asset")
  /\ \E ext \in ExtNoRequest :
       Commit(get_asset(The(pending).args.symbol_or_asset_id, ext))

Run_get_account ==
  /\ Called("get_account")
  /\ \E ext \in ExtNoRequest : Commit(get_account(ext))

Run_get_all_positions ==
  /\ Called("get_all_positions")
  /\ \E ext \in ExtNoRequest : Commit(get_all_positions(ext))

Run_get_open_position ==
  /\ Called("get_open_position")
  /\ \E ext \in ExtNoRequest :
       Commit(get_open_position(The(pending).args.symbol_or_asset_id, ext))

Run_close_position ==
  /\ Called("close_position")
  /\ \E ext \in ExtOutcomes :
       LET a == The(pending).args
       IN  Commit(close_position(a.symbol_or_asset_id, a.qty, a.percentage, ext))

Run_get_clock ==
  /\ Called("get_clock")
  /\ \E ext \in ExtNoRequest : Commit(get_clock(ext))

Run_get_calendar ==
  /\ Called("get_calendar")
  /\ \E ext \in ExtOutcomes :
       LET a == The(pending).args
       IN  Commit(get_calendar(a.start, a.end, ext))

Run_place_limit_order ==
  /\ Called("place_limit_order")
  /\ \E ext \in ExtOutcomes :
       LET a == The(pending).args
       IN  Commit(place_limit_order(a.symbol, a.limit_price, a.qty, a.side,
                                    a.time_in_force, ext))

\* the runtime delivers the outcome to the caller
Respond ==
  /\ pc = "returned"
  /\ pc' = "idle"
  /\ last' = None
  /\ UNCHANGED <<pending, remote>>

Next ==
  \/ Dispatch
  \/ Run_get_latest_quotes
  \/ Run_get_stock_bars
  \/ Run_get_orders
  \/ Run_cancel_orders
  \/ Run_cancel_order_by_id
  \/ Run_get_asset
  \/ Run_get_account
  \/ Run_get_all_positions
  \/ Run_get_open_position
  \/ Run_close_position
  \/ Run_get_clock
  \/ Run_get_calendar
  \/ Run_place_limit_order
  \/ Respond

Spec == Init /\ [][Next]_vars

-----------------------------------------------------------------------------
(* Vocabulary of the properties *)

\* the last call the invocation made raised
CallFaulted(o) == Len(o.calls) > 0 /\ o.calls[Len(o.calls)].fault # None

\* the fault the last call raised
CallFault(o) == The(o.calls[Len(o.calls)].fault)

\* the invocation returned exactly one {success, message} record, in a dict
\* or in a one-element list according to shape
ReturnsRecord(o, shape, success, message) ==
  /\ o.result.kind = "return"
  /\ o.result.shape = shape
  /\ o.result.body = <<[success |-> success, message |-> message]>>

\* the invocation ended with this exception reaching the caller
Raises(o, e) == o.result.kind = "raise" /\ o.result.fault = Some(e)

\* the returned record's message begins with this text token
MessageStartsWith(o, tok) ==
  /\ Len(o.result.body) = 1
  /\ Len(o.result.body[1].message) > 0
  /\ o.result.body[1].message[1] = tok

InvalidSideMessage(side) ==
  <<"Invalid side parameter: ">> \o side \o <<". Must be 'buy' or 'sell'.">>

\* s is lit with some of its letters in the other case
IsCaseVariant(s, lit) ==
  /\ Len(s) = Len(lit)
  /\ \A i \in 1..Len(lit) : s[i] = lit[i] \/ s[i] = SwapCase(lit[i])

IsInvalidSide(o) ==
  /\ o.op = "place_limit_order"
  /\ ~IsCaseVariant(o.args.side, <<"b", "u", "y">>)
  /\ ~IsCaseVariant(o.args.side, <<"s", "e", "l", "l">>)

-----------------------------------------------------------------------------
(* C1 *)

\* C1 as stated: place_limit_order with a side that is neither buy nor sell
\* in any letter case always returns the invalid-side record and makes no
\* external call.
C1_AsStated ==
  \A o \in last :
    IsInvalidSide(o) =>
      /\ ReturnsRecord(o, "dict", FALSE, InvalidSideMessage(o.args.side))
      /\ o.calls = <<>>

\* C1 (amended): place_limit_order with a side that is neither buy nor sell
\* in any letter case makes no external call; when the client handle was
\* constructed it returns exactly the invalid-side record with the side as
\* given, and when constructing the client raised, that fault is raised.
C1_InvalidSide ==
  \A o \in last :
    IsInvalidSide(o) =>
      /\ o.calls = <<>>
      /\ IF o.ext.client = None
         THEN ReturnsRecord(o, "dict", FALSE, InvalidSideMessage(o.args.side))
         ELSE Raises(o, The(o.ext.client))

C1_Witness ==
  \E o \in last :
    /\ IsInvalidSide(o)
    /\ o.args.side = <<"s", "i", "d", "e", "w", "a", "y", "s">>
    /\ o.args.time_in_force = <<"d", "a", "y">>
    /\ o.ext = [client |-> None, request |-> None, call |-> None]

-----------------------------------------------------------------------------
(* C2 *)

WrappingOps ==
  {"cancel_order_by_id", "get_asset", "get_account", "get_all_positions",
   "get_open_position", "close_position", "get_clock", "get_calendar",
   "place_limit_order"}

ListReturningOps == {"cancel_orders", "get_all_positions", "get_calendar"}

WrapsCallFault(o) ==
  ReturnsRecord(o, IF o.op \in ListReturningOps THEN "list" ELSE "dict",
                FALSE, CallFault(o).msg)

\* C2 as stated: each of the ten operations other than quotes, bars and list
\* orders turns a fault of its external call into a failure record (a
\* one-element list of it for the list-returning ones).
C2_AsStated ==
  \A o \in last :
    (o.op \in WrappingOps \cup {"cancel_orders"} /\ CallFaulted(o))
      => WrapsCallFault(o)

\* C2 (amended): the nine operations with a try/except turn a fault of their
\* external call into a failure record carrying the fault's description (a
\* one-element list of it for get_all_positions and get_calendar);
\* cancel_orders propagates the fault of its call unmodified.
C2_CaptureAndWrap ==
  \A o \in last :
    CallFaulted(o) =>
      /\ o.op \in WrappingOps => WrapsCallFault(o)
      /\ o.op = "cancel_orders" => Raises(o, CallFault(o))

C2_Witness ==
  \E o \in last : o.op = "get_calendar" /\ CallFaulted(o) /\ o.req # None

-----------------------------------------------------------------------------
(* C3 *)

\* the argument is a letter-case variant of the i-th literal of the mapping
IsVariant(s, d, i) == IsCaseVariant(s, d[i].k)

\* get_orders maps every variant of a literal of status, direction and side
GetOrdersCase(o) ==
  o.op = "get_orders" =>
    /\ o.result.kind = "raise" => o.result.fault \subseteq
         ({AuthFault, RequestFault} \cup CallFaults)
    /\ \A i \in 1..Len(status_map) :
         (o.args.status # None /\ IsVariant(The(o.args.status), status_map, i)
            /\ o.req # None)
           => The(o.req).status = Some(status_map[i].v)
    /\ \A i \in 1..Len(direction_map) :
         (o.args.direction # None
            /\ IsVariant(The(o.args.direction), direction_map, i)
            /\ o.req # None)
           => The(o.req).direction = Some(direction_map[i].v)
    /\ \A i \in 1..Len(side_map) :
         (o.args.side # None /\ IsVariant(The(o.args.side), side_map, i)
            /\ o.req # None)
           => The(o.req).side = Some(side_map[i].v)

\* place_limit_order maps every variant of a literal of side, time_in_force
PlaceLimitOrderCase(o) ==
  o.op = "place_limit_order" =>
    /\ \A i \in 1..Len(side_map) :
         IsVariant(o.args.side, side_map, i) =>
           /\ ~MessageStartsWith(o, "Invalid side parameter: ")
           /\ o.req # None => The(o.req).side = side_map[i].v
    /\ \A i \in 1..Len(tif_map) :
         IsVariant(o.args.time_in_force, tif_map, i) =>
           /\ ~MessageStartsWith(o, "Invalid time_in_force parameter: ")
           /\ o.req # None => The(o.req).time_in_force = tif_map[i].v

\* get_stock_bars maps the i-th unit name as written in unit_map
BarsUnitAccepted(o, i) ==
  /\ o.result.kind = "raise" => o.result.fault \subseteq
       ({AuthFault, RequestFault} \cup CallFaults)
  /\ o.req # None => The(o.req).timeframe.unit = unit_map[i].v

\* C3 as stated: for status, direction and side of get_orders, side and
\* time_in_force of place_limit_order and timeframe_unit of get_stock_bars,
\* every letter-case variant of an accepted literal is accepted and maps to
\* the value of the literal.
C3_AsStated ==
  \A o \in last :
    /\ GetOrdersCase(o)
    /\ PlaceLimitOrderCase(o)
    /\ o.op = "get_stock_bars" =>
         \A i \in 1..Len(unit_map) :
           IsVariant(o.args.timeframe_unit, unit_map, i)
             => BarsUnitAccepted(o, i)

\* C3 (amended): for status, direction and side of get_orders and side and
\* time_in_force of place_limit_order, every letter-case variant of an
\* accepted literal is accepted and maps to the value of the literal;
\* timeframe_unit of get_stock_bars is matched case-sensitively: the exact
\* names Min, Hour, Day, Week, Month map to their units and every other
\* letter-case variant of them is rejected with the invalid-unit fault.
C3_CaseInsensitive ==
  \A o \in last :
    /\ GetOrdersCase(o)
    /\ PlaceLimitOrderCase(o)
    /\ o.op = "get_stock_bars" =>
         \A i \in 1..Len(unit_map) :
           IsVariant(o.args.timeframe_unit, unit_map, i) =>
             IF o.args.timeframe_unit = unit_map[i].k
             THEN BarsUnitAccepted(o, i)
             ELSE /\ o.result.kind = "raise"
                  /\ The(o.result.fault).cls = "ValueError"
                  /\ o.req = None
                  /\ o.calls = <<>>

C3_Witness ==
  \E o \in last :
    /\ o.op = "get_orders"
    /\ o.args.status = Some(<<"C", "l", "o", "s", "e", "d">>)
    /\ o.args.direction = Some(<<"D", "E", "S", "C">>)
    /\ o.args.side = Some(<<"B", "u", "y">>)
    /\ Len(o.calls) = 1

-----------------------------------------------------------------------------
(* C4 *)

\* a one-element sequence for a string, the sequence itself otherwise
Wrapped(symbols) == IF symbols.isStr THEN <<symbols.s>> ELSE symbols.l

\* get_latest_quotes and get_stock_bars pass the wrapped symbols
DataSymbolsWrapped(o) ==
  (o.op \in {"get_latest_quotes", "get_stock_bars"} /\ o.req # None) =>
    /\ The(o.req).symbol_or_symbols = Wrapped(o.args.symbols)
    /\ \A i \in 1..Len(o.calls) :
         o.calls[i].arg.symbol_or_symbols = Wrapped(o.args.symbols)

\* C4 as stated: get_latest_quotes, get_stock_bars and get_orders all pass a
\* single string as a one-element sequence and any sequence, the empty one
\* included, as the same sequence.
C4_AsStated ==
  \A o \in last :
    /\ DataSymbolsWrapped(o)
    /\ (o.op = "get_orders" /\ o.req # None /\ o.args.symbols # None) =>
         The(o.req).symbols = Some(Wrapped(The(o.args.symbols)))

\* C4 (amended): get_latest_quotes and get_stock_bars pass a single string as
\* a one-element sequence and any sequence, the empty one included, as the
\* same sequence; get_orders does so for a non-empty string and a non-empty
\* sequence, and passes an empty string, an empty sequence or an absent
\* argument as unset.
C4_SymbolsNormalized ==
  \A o \in last :
    /\ DataSymbolsWrapped(o)
    /\ (o.op = "get_orders" /\ o.req # None) =>
         LET expected ==
               IF o.args.symbols = None THEN None
               ELSE IF The(o.args.symbols).isStr /\ The(o.args.symbols).s = ""
               THEN None
               ELSE IF ~The(o.args.symbols).isStr
                       /\ The(o.args.symbols).l = <<>>
               THEN None
               ELSE Some(Wrapped(The(o.args.symbols)))
         IN  /\ The(o.req).symbols = expected
             /\ \A i \in 1..Len(o.calls) : o.calls[i].arg.symbols = expected

C4_Witness ==
  \E o \in last :
    /\ o.op = "get_stock_bars"
    /\ o.args.symbols = Lst(<<"MSFT", "AAPL">>)
    /\ Len(o.calls) = 1

-----------------------------------------------------------------------------
(* C5 *)

NormalizingOps ==
  {"get_latest_quotes", "get_stock_bars", "get_orders", "place_limit_order"}

\* the call is the last step and, where the handler normalizes, comes after it
CallAfterNormalization(o) ==
  /\ o.trace[Len(o.trace)] = "call"
  /\ o.op \in NormalizingOps =>
       \E i \in 1..(Len(o.trace) - 1) : o.trace[i] = "normalize"

\* the handler builds a request object for these arguments
BuildsRequest(o) ==
  \/ o.op \in NormalizingOps
  \/ o.op = "close_position" /\ (o.args.qty # None \/ o.args.percentage # None)
  \/ o.op = "get_calendar" /\ (o.args.start # None \/ o.args.end # None)

\* the arguments fail the handler's own validation
LocallyRejected(o) ==
  \/ IsInvalidSide(o)
  \/ /\ o.op = "place_limit_order"
     /\ \A i \in 1..Len(tif_map) : ~IsVariant(o.args.time_in_force, tif_map, i)
  \/ /\ o.op = "get_stock_bars"
     /\ \A i \in 1..Len(unit_map) : o.args.timeframe_unit # unit_map[i].k

\* the invocation ends before its call
EndsBeforeCall(o) ==
  \/ LocallyRejected(o)
  \/ o.ext.client # None
  \/ BuildsRequest(o) /\ o.ext.request # None

\* C5 as stated: every invocation of every operation makes exactly one
\* external call, after parameter normalization.
C5_AsStated ==
  \A o \in last : Len(o.calls) = 1 /\ CallAfterNormalization(o)

\* C5 (amended): every invocation makes at most one external call, as its
\* last step and after parameter normalization; it makes exactly one unless
\* it ends before the call, which happens when place_limit_order is given an
\* invalid side or time_in_force, when get_stock_bars is given an invalid
\* timeframe_unit, or when constructing the client handle or the request
\* object raises.
C5_AtMostOneCall ==
  \A o \in last :
    /\ Len(o.calls) <= 1
    /\ Len(o.calls) = 1 => CallAfterNormalization(o)
    /\ Len(o.calls) = 0 <=> EndsBeforeCall(o)

C5_Witness ==
  \E o \in last :
    /\ o.op = "place_limit_order"
    /\ Len(o.calls) = 1
    /\ CallFaulted(o)

-----------------------------------------------------------------------------
(* C6 *)

UnitNames ==
  {<<"M", "i", "n">>, <<"H", "o", "u", "r">>, <<"D", "a", "y">>,
   <<"W", "e", "e", "k">>, <<"M", "o", "n", "t", "h">>}

\* sub occurs in text
Contains(text, sub) ==
  \E i \in 1..(Len(text) - Len(sub) + 1) :
    SubSeq(text, i, i + Len(sub) - 1) = sub

\* C6: get_stock_bars with a timeframe_unit that is not one of Min, Hour, Day,
\* Week, Month raises a fault whose message names all five, before the bars
\* request is built and before any client is constructed or called.
C6_InvalidUnit ==
  \A o \in last :
    (o.op = "get_stock_bars" /\ o.args.timeframe_unit \notin UnitNames) =>
      /\ o.result.kind = "raise"
      /\ \A n \in UnitNames : Contains(The(o.result.fault).msg, n)
      /\ o.req = None
      /\ o.calls = <<>>
      /\ \A i \in 1..Len(o.trace) : o.trace[i] \notin {"request", "client", "call"}

C6_Witness ==
  \E o \in last :
    /\ o.op = "get_stock_bars"
    /\ o.args.timeframe_unit = <<"F", "o", "r", "t", "n", "i", "g", "h", "t">>
    /\ o.ext = [client |-> None, request |-> None, call |-> None]
    /\ o.result.kind = "raise"

-----------------------------------------------------------------------------
(* C7 *)

PropagatingOps == {"get_latest_quotes", "get_stock_bars", "get_orders"}

\* C7: get_latest_quotes, get_stock_bars and get_orders never return a
\* {success, message} record, and a fault raised by their external call
\* reaches the caller as that same fault.
C7_Propagate ==
  \A o \in last :
    o.op \in PropagatingOps =>
      /\ o.result.shape \notin {"dict", "list"}
      /\ o.result.body = <<>>
      /\ CallFaulted(o) => Raises(o, CallFault(o))

C7_Witness ==
  \E o \in last : o.op = "get_latest_quotes" /\ CallFaulted(o)

-----------------------------------------------------------------------------
(* C8 *)

\* a string that is no letter-case variant of a literal of the mapping
InvalidLiteral(opt, d) ==
  opt # None /\ \A i \in 1..Len(d) : ~IsVariant(The(opt), d, i)

\* the request get_orders builds for these arguments
OrdersRequestFor(a, ext) ==
  get_orders(a.status, a.limit, a.after, a.until, a.direction, a.nested,
             a.side, a.symbols, ext).req

\* the invocation did not fail for a reason of its own, and made the
\* list-orders call if the collaborator let it get there
StillCalls(o) ==
  /\ o.result.kind = "raise" =>
       o.result.fault \subseteq ({AuthFault, RequestFault} \cup CallFaults)
  /\ (o.ext.request = None /\ o.ext.client = None) =>
       (Len(o.calls) = 1 /\ o.calls[1].name = "get_orders"
          /\ o.calls[1].arg = The(o.req))

\* C8: in get_orders an unrecognized status, direction or side does not fail
\* the operation: that filter is passed unset, the other filters are passed
\* as they are without it, and the list-orders call is still made.
C8_InvalidFilterUnset ==
  \A o \in last :
    o.op = "get_orders" =>
      LET a == o.args
      IN  /\ InvalidLiteral(a.status, status_map) =>
               /\ StillCalls(o)
               /\ o.req # None =>
                    /\ The(o.req).status = None
                    /\ o.req = OrdersRequestFor([a EXCEPT !.status = None], o.ext)
          /\ InvalidLiteral(a.direction, direction_map) =>
               /\ StillCalls(o)
               /\ o.req # None =>
                    /\ The(o.req).direction = None
                    /\ o.req = OrdersRequestFor([a EXCEPT !.direction = None], o.ext)
          /\ InvalidLiteral(a.side, side_map) =>
               /\ StillCalls(o)
               /\ o.req # None =>
                    /\ The(o.req).side = None
                    /\ o.req = OrdersRequestFor([a EXCEPT !.side = None], o.ext)
          /\ o.req # None =>
               /\ The(o.req).limit = a.limit
               /\ The(o.req).after = a.after
               /\ The(o.req).until = a.until
               /\ The(o.req).nested = a.nested

C8_Witness ==
  \E o \in last :
    /\ o.op = "get_orders"
    /\ o.args.status = Some(<<"p", "e", "n", "d", "i", "n", "g">>)
    /\ o.args.direction = Some(<<"D", "E", "S", "C">>)
    /\ o.args.side = Some(<<"s", "i", "d", "e", "w", "a", "y", "s">>)
    /\ o.args.limit = Some(500)
    /\ Len(o.calls) = 1
    /\ o.calls[1].ok

-----------------------------------------------------------------------------
(* C9 *)

CancelSentMessage(order_id) ==
  <<"Request to cancel order ">> \o order_id
    \o <<" was sent to Alpaca. Verify order status to ensure it was cancelled.">>

\* C9: cancel_order_by_id returns exactly the success record naming the id
\* as given when the collaborator's cancel call returns, returns a success
\* record only then, and returns a record with success false when the call
\* raises.
C9_CancelById ==
  \A o \in last :
    o.op = "cancel_order_by_id" =>
      /\ (Len(o.calls) = 1 /\ o.calls[1].ok) =>
           ReturnsRecord(o, "dict", TRUE, CancelSentMessage(o.args.order_id))
      /\ (\E i \in 1..Len(o.result.body) : o.result.body[i].success) =>
           /\ Len(o.calls) = 1
           /\ o.calls[1].name = "cancel_order_by_id"
           /\ o.calls[1].arg = o.args.order_id
           /\ o.calls[1].ok
      /\ CallFaulted(o) =>
           /\ o.result.kind = "return"
           /\ o.result.shape = "dict"
           /\ Len(o.result.body) = 1
           /\ ~o.result.body[1].success

C9_Witness ==
  \E o \in last :
    /\ o.op = "cancel_order_by_id"
    /\ o.args.order_id = OrderIdText(1)
    /\ Len(o.calls) = 1
    /\ o.calls[1].ok
    /\ remote.orders = {}

-----------------------------------------------------------------------------
(* C10 *)

PureReadOps ==
  {"get_account", "get_clock", "get_calendar", "get_all_positions",
   "get_asset"}

\* C10: an invocation of get_account, get_clock, get_calendar,
\* get_all_positions or get_asset issues no external call other than its own
\* read call and leaves the remote account's orders and positions as they
\* were, whatever its arguments and outcome and whatever ran before it.
C10_PureReads ==
  [][\A o \in last' :
       o.op \in PureReadOps =>
         /\ remote' = remote
         /\ \A i \in 1..Len(o.calls) : o.calls[i].name = o.op]_vars

C10_Witness ==
  \E o \in last :
    /\ o.op = "get_asset"
    /\ Len(o.calls) = 1
    /\ o.calls[1].ok
    /\ remote.orders # {}
    /\ remote.positions # {}

-----------------------------------------------------------------------------
(* C11 *)

TifCodes ==
  {<<"d", "a", "y">>, <<"g", "t", "c">>, <<"o", "p", "g">>,
   <<"c", "l", "s">>, <<"i", "o", "c">>, <<"f", "o", "k">>}

\* place_limit_order with a time_in_force that is no variant of the six codes
IsInvalidTif(o) ==
  /\ o.op = "place_limit_order"
  /\ \A c \in TifCodes : ~IsCaseVariant(o.args.time_in_force, c)

\* a failure record whose message names the value and lists the six codes
IsInvalidTifRecord(o) ==
  /\ o.result.kind = "return"
  /\ o.result.shape = "dict"
  /\ Len(o.result.body) = 1
  /\ ~o.result.body[1].success
  /\ MessageStartsWith(o, "Invalid time_in_force parameter: ")
  /\ Contains(Tail(o.result.body[1].message), o.args.time_in_force)
  /\ \A c \in TifCodes : Contains(o.result.body[1].message, c)

\* the record place_limit_order returns for these arguments when it rejects
RejectedAs(o) ==
  IF IsInvalidSide(o)
  THEN ReturnsRecord(o, "dict", FALSE, InvalidSideMessage(o.args.side))
  ELSE IsInvalidTifRecord(o)

\* C11 as stated: place_limit_order with a valid side and an invalid
\* time_in_force always returns a failure record naming the value and the six
\* codes and never calls submit_order; with both invalid it returns the
\* invalid-side record.
C11_AsStated ==
  \A o \in last :
    IsInvalidTif(o) => (o.calls = <<>> /\ RejectedAs(o))

\* C11 (amended): place_limit_order with an invalid time_in_force never calls
\* submit_order; when the client handle was constructed it returns a failure
\* record, not a raised fault: the one naming the value and the six codes
\* when the side is valid, the invalid-side one when the side is invalid too;
\* when constructing the client raised, that fault is raised instead.
C11_InvalidTif ==
  \A o \in last :
    IsInvalidTif(o) =>
      /\ o.calls = <<>>
      /\ IF o.ext.client = None THEN RejectedAs(o)
         ELSE Raises(o, The(o.ext.client))

C11_Witness ==
  \E o \in last :
    /\ IsInvalidTif(o)
    /\ ~IsInvalidSide(o)
    /\ o.args.time_in_force = <<"w", "e", "e", "k">>
    /\ o.ext = [client |-> None, request |-> None, call |-> None]

-----------------------------------------------------------------------------
(* C12 *)

BothAbsent(o) == o.args.qty = None /\ o.args.percentage = None

BothSet(o) == o.args.qty # None /\ o.args.percentage # None

\* every call made is the close call for the given position, without close
\* options exactly when qty and percentage are both absent and otherwise
\* with one request carrying exactly the two as given
ForwardsCloseOptions(o) ==
  \A i \in 1..Len(o.calls) :
    /\ o.calls[i].name = "close_position"
    /\ o.calls[i].arg.symbol_or_asset_id = o.args.symbol_or_asset_id
    /\ o.calls[i].arg.close_options = None <=> BothAbsent(o)
    /\ ~BothAbsent(o) =>
         /\ The(o.calls[i].arg.close_options).qty = o.args.qty
         /\ The(o.calls[i].arg.close_options).percentage = o.args.percentage

\* with the client constructed, the outcome is the collaborator's: the close
\* call is made unless the request constructor raised, and the result is the
\* call's response or the record wrapping the collaborator's fault
CollaboratorDecides(o) ==
  IF ~BothAbsent(o) /\ o.ext.request # None
  THEN /\ o.calls = <<>>
       /\ ReturnsRecord(o, "dict", FALSE, The(o.ext.request).msg)
  ELSE /\ Len(o.calls) = 1
       /\ IF o.ext.call # None
          THEN ReturnsRecord(o, "dict", FALSE, The(o.ext.call).msg)
          ELSE /\ o.result.kind = "return"
               /\ o.result.shape = "native"
               /\ o.result.native = "order"

\* C12 as stated: close_position does not validate qty and percentage; it
\* passes no close options exactly when both are absent and otherwise the two
\* as given, and with both set its outcome is always the collaborator's
\* result or the collaborator's fault wrapped as a failure record.
C12_AsStated ==
  \A o \in last :
    o.op = "close_position" =>
      /\ ForwardsCloseOptions(o)
      /\ BothSet(o) => CollaboratorDecides(o)

\* C12 (amended): close_position does not validate qty and percentage; it
\* passes no close options exactly when both are absent and otherwise the two
\* as given; with both set and the client handle constructed its outcome is
\* the collaborator's result or the collaborator's fault wrapped as a failure
\* record, and when constructing the client raised, that fault is raised.
C12_NoLocalValidation ==
  \A o \in last :
    o.op = "close_position" =>
      /\ ForwardsCloseOptions(o)
      /\ BothSet(o) =>
           IF o.ext.client = None THEN CollaboratorDecides(o)
           ELSE o.calls = <<>> /\ Raises(o, The(o.ext.client))

C12_Witness ==
  \E o \in last :
    /\ o.op = "close_position"
    /\ o.args.qty = Some("10")
    /\ o.args.percentage = Some("50")
    /\ Len(o.calls) = 1
    /\ o.calls[1].ok

-----------------------------------------------------------------------------
(* C13 *)

\* C13: in each of the nine operations that wrap faults, a fault raised while
\* constructing the client handle reaches the caller as that raised fault,
\* with no failure record and no call made; once the client is constructed no
\* fault is raised: a fault of the request constructor or of the call is
\* returned as a failure record.
C13_ClientOutsideTry ==
  \A o \in last :
    o.op \in WrappingOps =>
      IF o.ext.client # None
      THEN /\ Raises(o, The(o.ext.client))
           /\ o.result.body = <<>>
           /\ o.calls = <<>>
           /\ o.trace = <<"client">>
      ELSE /\ o.result.kind = "return"
           /\ o.trace[1] = "client"
           /\ CallFaulted(o) => WrapsCallFault(o)
           /\ (o.calls = <<>> /\ BuildsRequest(o) /\ o.ext.request # None
                 /\ ~LocallyRejected(o)) =>
                ReturnsRecord(o, IF o.op \in ListReturningOps THEN "list"
                                 ELSE "dict",
                              FALSE, The(o.ext.request).msg)

C13_Witness ==
  \E o \in last :
    /\ o.op = "close_position"
    /\ o.ext.client = Some(AuthFault)
    /\ o.result.kind = "raise"

====
